---- MODULE Spec2Model ----
(***************************************************************************)
(* Interval timer: the countdown worker (WORKER_CODE), the App component   *)
(* that drives it (settings, status, Start/Pause/Reset handlers, the       *)
(* settings effect) and the messages between them.                        *)
(* Of the worker's posts the view's reaction to COMPLETED (the status      *)
(* change) is modelled; the view's copy of the countdown is not a          *)
(* variable here.  Each handler is one step, its setState and the effect   *)
(* it triggers included.                                                   *)
(***************************************************************************)
EXTENDS Integers, Sequences, FiniteSets, Bags, TLC

\* ---------------------------------------------------------------- bounds
\* Largest interval length (seconds) typed into the settings input.
MaxInterval == 4
\* Largest session length (minutes) typed into the settings input.
MaxDuration == 1
\* Messages the view may have posted to the worker and not yet handled.
MaxInbox == 3
\* COMPLETED messages the worker may have posted and the view not yet handled.
MaxOutbox == 1
\* handleStart calls that may be awaiting at the same time.
MaxPending == 2
\* Ticks modelled beyond the longest typed session.
MaxExtraTicks == 3
\* Worker messages the view may have been sent and not yet handled, where the
\* messages themselves are modelled.
MaxToView == 2
\* Calls of the audio service that may be suspended at an await at the same
\* time.
MaxCalls == 2
\* Audio contexts the platform lets the page construct; the constructor throws
\* beyond it.
MaxContexts == 2
\* Wake-lock sentinels the platform grants at a time; a request beyond it is
\* rejected.
MaxLocks == 2

\* ------------------------------------------------------ program constants
\* DEFAULT_SETTINGS.intervalLength / totalDuration, also the worker's
\* initial configuration.
DefaultIntervalLength == 60
DefaultTotalDuration == 20
\* payload.totalDuration * 60
SecondsPerMinute == 60
\* COUNTDOWN is posted while 0 < currentIntervalTime <= 3
CountdownWindow == 3
\* POOL_SIZE: the elements of tickPool and of dingPool
PoolSize == 3

MaxTicks == SecondsPerMinute * MaxDuration + MaxExtraTicks

VARIABLES
  timerId,        \* worker: 0 = null, 1 = the handle of an interval timer
  timers,         \* worker: interval timers set and not cleared
  state,          \* worker: the state object
  toWorker,       \* view -> worker messages in flight (FIFO)
  completedInFlight, \* worker -> view: COMPLETED messages posted and not yet handled
  settings,       \* view: TimerSettings (intervalLength, totalDuration)
  status,         \* view: TimerState.status
  pendingStarts,  \* view: handleStart calls suspended at an await
  posted,         \* history: messages posted by the latest worker step
  initTotal,      \* history: totalTimeRemaining set by the latest INIT_STATE/RESET
  ticksSinceInit, \* history: ticks since the latest INIT_STATE/RESET
  completions,    \* history: COMPLETED messages since the latest INIT_STATE/RESET
  intervalEnds,   \* history: INTERVAL_END messages since the latest INIT_STATE/RESET
  sinceBoundary,  \* history: ticks since the latest INIT_STATE/RESET/INTERVAL_END
  intervalTicks,  \* history: length in ticks of the interval that ended last
  resumed,        \* history: a START restarted the timer after a tick, since the
                  \*          latest INIT_STATE/RESET
  countdownTicks, \* history: the ticks of the latest interval that posted COUNTDOWN,
                  \*          numbered from the interval's first tick
  toView,         \* worker -> view messages in flight (FIFO), each with its snapshot
  viewState,      \* view: TimerState's currentIntervalTime, totalTimeRemaining,
                  \*       intervalsCompleted
  resetLast,      \* history: no click, no edit and no handleStart step since the
                  \*          latest Reset click
  played,         \* history: what the latest worker.onmessage of the view called
  wakeLock,       \* wakeLockRef.current holds a sentinel; the sentinels granted
                  \* and not released
  starts,         \* history: the status at the click of each handleStart that is
                  \*          awaiting, and for each START in toWorker the status
                  \*          at the click and at the postMessage
  fallback,       \* the AudioService object's HTMLAudioElements: which are muted,
                  \* the primeFallbackAudio() calls awaiting a play(), and
                  \* which AudioService of the repository it is
  audio,          \* the AudioService object (audioCtx, keepAliveOsc, silentPlaying),
                  \* the audio contexts constructed and those running, its calls
                  \* suspended at an await, and the outcome of the latest calls
  isMobile        \* IS_MOBILE

\* The worker, the view's settings and status, and the messages to the worker.
timerVars == <<timerId, timers, state, toWorker, completedInFlight, settings, status,
               pendingStarts, posted, initTotal, ticksSinceInit, completions,
               intervalEnds, sinceBoundary, intervalTicks, resumed, countdownTicks>>

\* The view's copy of the countdown and the messages that carry it.
copyVars == <<toView, viewState>>

\* The audio service.
audioVars == <<audio, isMobile, fallback>>

vars == <<timerVars, copyVars, audioVars, resetLast, played, starts, wakeLock>>

workerVars == <<timerId, timers, state>>
viewVars == <<settings, status, pendingStarts>>
histVars == <<initTotal, ticksSinceInit, completions, intervalEnds,
              sinceBoundary, intervalTicks, resumed, countdownTicks>>

\* ------------------------------------------------------------ the worker
Payload(s) == [intervalLength |-> s.intervalLength, totalDuration |-> s.totalDuration]

Msg(t, p) == [type |-> t, payload |-> p]

\* workerRef.current?.postMessage({ type: 'START' }) and the like: no payload
Ctl(t) == [type |-> t, payload |-> "undefined"]

Post(t, s) == [type |-> t, state |-> s]

\* let state = {...}
InitialWorkerState ==
  [currentIntervalTime |-> 0, totalTimeRemaining |-> 0, intervalsCompleted |-> 0,
   intervalLength |-> DefaultIntervalLength, totalDuration |-> DefaultTotalDuration]

\* (variant: CONFIGURE also restarts the countdown)
ConfigureState_Reinit(s, p) ==
  [s EXCEPT !.intervalLength = p.intervalLength, !.totalDuration = p.totalDuration,
            !.totalTimeRemaining = p.totalDuration * SecondsPerMinute]

\* case 'CONFIGURE'
ConfigureState(s, p) ==
  [s EXCEPT !.intervalLength = p.intervalLength, !.totalDuration = p.totalDuration]

\* (variant: INIT_STATE also stores the payload as the configuration)
InitStateState_Reconfigure(s, p) ==
  [s EXCEPT !.currentIntervalTime = p.intervalLength,
            !.totalTimeRemaining = p.totalDuration * SecondsPerMinute,
            !.intervalsCompleted = 0,
            !.intervalLength = p.intervalLength,
            !.totalDuration = p.totalDuration]

\* case 'INIT_STATE'
InitStateState(s, p) ==
  [s EXCEPT !.currentIntervalTime = p.intervalLength,
            !.totalTimeRemaining = p.totalDuration * SecondsPerMinute,
            !.intervalsCompleted = 0]

\* (variant: RESET keeps the interval counter)
ResetState_KeepCount(s) ==
  [s EXCEPT !.currentIntervalTime = s.intervalLength,
            !.totalTimeRemaining = s.totalDuration * SecondsPerMinute]

\* (variant: RESET restores the initial configuration's countdown)
ResetState_FromDefaults(s) ==
  [s EXCEPT !.currentIntervalTime = DefaultIntervalLength,
            !.totalTimeRemaining = DefaultTotalDuration * SecondsPerMinute,
            !.intervalsCompleted = 0]

\* case 'RESET'
ResetState(s) ==
  [s EXCEPT !.currentIntervalTime = s.intervalLength,
            !.totalTimeRemaining = s.totalDuration * SecondsPerMinute,
            !.intervalsCompleted = 0]

\* (variant: the session completes only when the decrement reaches exactly 0)
TickCompletes_ExactlyZero(s) == s.totalTimeRemaining - 1 = 0

\* (variant: the test is made before the decrement)
TickCompletes_BeforeDecrement(s) == s.totalTimeRemaining <= 0

\* tick(): state.totalTimeRemaining--; if (state.totalTimeRemaining <= 0)
TickCompletes(s) == s.totalTimeRemaining - 1 <= 0

\* (variant: the completing branch does not reset totalTimeRemaining)
CompletedState_NoClamp(s) ==
  [s EXCEPT !.currentIntervalTime = 0, !.totalTimeRemaining = @ - 1]

\* tick(): the completing branch
CompletedState(s) ==
  [s EXCEPT !.currentIntervalTime = 0, !.totalTimeRemaining = 0]

\* (variant: the window is tested on the decremented interval time)
InCountdown_AfterDecrement(s) ==
  s.currentIntervalTime - 1 > 0 /\ s.currentIntervalTime - 1 <= CountdownWindow

\* tick(): if (state.currentIntervalTime > 0 && state.currentIntervalTime <= 3)
InCountdown(s) ==
  s.currentIntervalTime > 0 /\ s.currentIntervalTime <= CountdownWindow

\* tick(): state.currentIntervalTime--; if (state.currentIntervalTime < 0)
RollsOver(s) == s.currentIntervalTime - 1 < 0

\* (variant: the interval time wraps to the full interval length)
WrapValue_Full(s) == s.intervalLength

\* tick(): state.currentIntervalTime = state.intervalLength - 1
WrapValue(s) == s.intervalLength - 1

\* tick(): the state object after the whole function
TickState(s) ==
  IF TickCompletes(s) THEN CompletedState(s)
  ELSE LET d == [s EXCEPT !.totalTimeRemaining = @ - 1] IN
       IF RollsOver(d)
       THEN [d EXCEPT !.currentIntervalTime = WrapValue(d),
                      !.intervalsCompleted = @ + 1]
       ELSE [d EXCEPT !.currentIntervalTime = @ - 1]

\* (variant: the completing branch falls through to the TICK post)
TickPosts_NoReturn(s) ==
  IF TickCompletes(s)
  THEN <<Post("COMPLETED", CompletedState(s)), Post("TICK", CompletedState(s))>>
  ELSE LET d == [s EXCEPT !.totalTimeRemaining = @ - 1] IN
       (IF InCountdown(d) THEN <<Post("COUNTDOWN", d)>> ELSE <<>>)
       \o <<Post(IF RollsOver(d) THEN "INTERVAL_END" ELSE "TICK", TickState(s))>>

\* (variant: the rollover branch falls through to the TICK post)
TickPosts_TickAfterIntervalEnd(s) ==
  IF TickCompletes(s) THEN <<Post("COMPLETED", CompletedState(s))>>
  ELSE LET d == [s EXCEPT !.totalTimeRemaining = @ - 1] IN
       (IF InCountdown(d) THEN <<Post("COUNTDOWN", d)>> ELSE <<>>)
       \o (IF RollsOver(d) THEN <<Post("INTERVAL_END", TickState(s))>> ELSE <<>>)
       \o <<Post("TICK", TickState(s))>>

\* tick(): the messages posted, in order; each carries a copy of the state
\* object as it is at the postMessage call
TickPosts(s) ==
  IF TickCompletes(s) THEN <<Post("COMPLETED", CompletedState(s))>>
  ELSE LET d == [s EXCEPT !.totalTimeRemaining = @ - 1] IN
       (IF InCountdown(d) THEN <<Post("COUNTDOWN", d)>> ELSE <<>>)
       \o <<Post(IF RollsOver(d) THEN "INTERVAL_END" ELSE "TICK", TickState(s))>>

\* (variant: START sets a timer whether or not one is set)
SetTimers_Unguarded(tid, n) == n + 1

\* case 'START': if (!timerId) { timerId = setInterval(tick, 1000); }
SetTimers(tid, n) == IF tid = 0 THEN n + 1 ELSE n

\* (variant: the timer is not cleared)
ClearTimers_Noop(tid, n) == n

\* clearInterval(timerId): clears the timer timerId names, if any
ClearTimers(tid, n) == IF tid # 0 THEN n - 1 ELSE n

HasType(msgs, t) == \E i \in 1..Len(msgs) : msgs[i].type = t

CountType(msgs, t) == Cardinality({i \in 1..Len(msgs) : msgs[i].type = t})

\* ------------------------------------------------------------- the view
\* useEffect(..., [settings.intervalLength, settings.totalDuration, state.status]):
\* the messages it posts
SettingsEffect(st, stat) ==
  (IF stat = "IDLE" THEN <<Msg("INIT_STATE", Payload(st))>> ELSE <<>>)
  \o <<Msg("CONFIGURE", Payload(st))>>

\* worker.onmessage: status: type === 'COMPLETED' ? COMPLETED : prev.status
StatusAfterMessage(prev, type) == IF type = "COMPLETED" THEN "COMPLETED" ELSE prev

DefaultSettings ==
  [intervalLength |-> DefaultIntervalLength, totalDuration |-> DefaultTotalDuration]

\* the three countdown fields of a state object
Countdown(s) == <<s.currentIntervalTime, s.totalTimeRemaining, s.intervalsCompleted>>

\* the two configuration fields of a state object
Configuration(s) == <<s.intervalLength, s.totalDuration>>

\* currentIntervalTime: settings.intervalLength, totalTimeRemaining:
\* settings.totalDuration * 60, intervalsCompleted: 0 (useState's initial
\* value, the settings effect while IDLE, handleReset)
FromSettings(st) == <<st.intervalLength, st.totalDuration * SecondsPerMinute, 0>>

\* (variant: the message shares the worker's state object instead of
\* carrying a copy of it)
Received_Shared(m, ws) == ws

\* const { type, state: workerState } = e.data: the state object the view
\* reads from message m while the worker's own state object is ws; postMessage
\* has cloned it at the post
Received(m, ws) == m.state

\* (variant: the alert is triggered for every message that is not COUNTDOWN)
MessageCalls_DingUnlessCountdown(type) ==
  (IF type = "COUNTDOWN" THEN <<"playTick">> ELSE <<"playDing">>)
  \o (IF type = "COMPLETED" THEN <<"releaseWakeLock", "disableBackgroundMode">> ELSE <<>>)

\* worker.onmessage in App, after its setState: what it calls, in order, for a
\* message of the type: audioService.playTick(); triggerAlertRef.current(),
\* which calls audioService.playDing() once; releaseWakeLock();
\* audioService.disableBackgroundMode()
MessageCalls(type) ==
  (IF type = "COUNTDOWN" THEN <<"playTick">>
   ELSE IF type \in {"INTERVAL_END", "COMPLETED"} THEN <<"playDing">>
   ELSE <<>>)
  \o (IF type = "COMPLETED" THEN <<"releaseWakeLock", "disableBackgroundMode">> ELSE <<>>)

\* the calls of op among calls
CallsOf(calls, op) == Cardinality({i \in 1..Len(calls) : calls[i] = op})

\* ------------------------------------------------------- the audio service
\* ensureContextReady's outcome: a context (1, 2, ...), null, or an exception
Null == 0
Raised == -1
NoneYet == -2
Current == 1
Stale == 2

\* new AudioService(): no context, no keep-alive; no call made yet. running:
\* this.audioCtx.state === 'running' (the only state the code reads); calls:
\* the calls suspended at an await; oscillators: the keep-alive oscillators
\* started (keepAliveOsc.start()) and not stopped; oscCtx: the context the
\* oscillator held was created on (ctx.createOscillator()); silentActual: the
\* silentAudio element is playing (not paused); lastEnable: what the latest
\* enableBackgroundMode() that completed got from ensureContextReady and where
\* the oscillator held at its end was
InitialAudio ==
  [audioCtx |-> Null, keepAliveOsc |-> FALSE, silentPlaying |-> FALSE, oscillators |-> 0,
   oscCtx |-> Null, silentActual |-> FALSE, lastEnable |-> [ctx |-> NoneYet, osc |-> NoneYet],
   created |-> 0, running |-> FALSE, calls |-> EmptyBag, failed |-> FALSE,
   lastEnsure |-> [attempts |-> 0, recreations |-> 0, failures |-> 0,
                   result |-> NoneYet, exists |-> FALSE],
   lastTone |-> [op |-> "none", ctx |-> NoneYet, fallbacks |-> 0, tones |-> 0]]

\* a call of playTick, playDing, unlock, recoverForActiveSession (recover) or
\* handleStart entering its first ensureContextReady
NewCall(op) ==
  [op |-> op, stage |-> IF op \in {"playTick", "playDing"} THEN "tone" ELSE "unlock",
   pc |-> "start", mine |-> Null, attempts |-> 0, recreations |-> 0, failures |-> 0]

Suspend(a, call) == [a EXCEPT !.calls = @ (+) SetToBag({call})]

Continue(a, call) == [a EXCEPT !.calls = @ (-) SetToBag({call})]

\* new AudioContext(...) succeeds
CanCreate(a) == a.created < MaxContexts

\* initCtx(): a context is constructed when there is none (no code closes a
\* context, so none is ever in the state 'closed'); a new context is suspended
InitCtx(a) ==
  IF a.audioCtx = Null
  THEN [a EXCEPT !.audioCtx = a.created + 1, !.created = @ + 1, !.running = FALSE]
  ELSE a

\* (variant: the fallback element is played only when there is no context)
Fallbacks_OnlyWithoutContext(ctx, mobile) == IF ctx = Null THEN 1 ELSE 0

\* playTick / playDing: if (!ctx || IS_MOBILE) this.playFromPool(...): the
\* fallback elements played (playFromPool plays one element of the pool)
Fallbacks(ctx, mobile) == IF ctx = Null \/ mobile THEN 1 ELSE 0

\* playTick / playDing: if (!ctx) return; ...osc.start(now): the Web Audio
\* tones played
Tones(ctx) == IF ctx = Null THEN 0 ELSE 1

\* a value of ensureContextReady as the records keep it: null, or the
\* service's current context, or another one
Kind(a, r) ==
  IF r \in {Null, Raised} THEN r ELSE IF r = a.audioCtx THEN Current ELSE Stale

\* the record of an ensureContextReady call that has ended with result r
Ended(a, call, r) ==
  [a EXCEPT !.lastEnsure = [attempts |-> call.attempts, recreations |-> call.recreations,
                            failures |-> call.failures, result |-> Kind(a, r),
                            exists |-> a.audioCtx # Null]]

\* the constructor threw inside ensureContextReady: the exception leaves
\* ensureContextReady and the operation that called it
Raise(a, call) ==
  LET b == Ended([a EXCEPT !.failed = TRUE], call, Raised) IN
  IF call.stage = "tone"
  THEN [b EXCEPT !.lastTone = [op |-> call.op, ctx |-> Raised, fallbacks |-> 0, tones |-> 0]]
  ELSE b

\* (variant: enableBackgroundMode starts an oscillator whenever it has a
\* context)
StartsKeepAlive_Unguarded(held, ctx) == ctx # Null

\* enableBackgroundMode: if (ctx && !this.keepAliveOsc) { ... this.keepAliveOsc.start() }
\* (if (!ctx) return; if (this.keepAliveOsc) return; in the first version)
StartsKeepAlive(held, ctx) == ctx # Null /\ ~held

\* the caller of ensureContextReady, from the value ctx it returned up to its
\* next await or its end
AfterEnsure(a, call, ctx) ==
  CASE call.stage = "tone" ->
         \* playTick, playDing
         [a EXCEPT !.lastTone = [op |-> call.op, ctx |-> Kind(a, ctx),
                                 fallbacks |-> Fallbacks(ctx, isMobile),
                                 tones |-> Tones(ctx)]]
    [] call.stage = "unlock" ->
         \* unlock: await this.primeFallbackAudio()
         Suspend(a, [NewCall(call.op) EXCEPT !.pc = "prime"])
    [] call.stage = "enable" ->
         \* enableBackgroundMode, then handleStart's await requestWakeLock()
         \* if (!this.silentPlaying) { this.silentPlaying = true; this.silentAudio.play()... }
         LET c == [a EXCEPT !.keepAliveOsc = (@ \/ ctx # Null), !.silentPlaying = TRUE,
                            !.oscillators = IF StartsKeepAlive(a.keepAliveOsc, ctx)
                                            THEN @ + 1 ELSE @,
                            !.oscCtx = IF StartsKeepAlive(a.keepAliveOsc, ctx) THEN ctx ELSE @,
                            !.silentActual = IF a.silentPlaying THEN @ ELSE TRUE]
             b == [c EXCEPT !.lastEnable = [ctx |-> Kind(c, ctx), osc |-> Kind(c, c.oscCtx)]] IN
         IF call.op = "handleStart"
         THEN Suspend(b, [NewCall(call.op) EXCEPT !.stage = "enable", !.pc = "wakeLock"])
         ELSE b

\* ensureContextReady() up to its first await or its return
Ensure(a, call) ==
  LET c == [call EXCEPT !.attempts = 0, !.recreations = 0, !.failures = 0] IN
  IF a.audioCtx = Null /\ ~CanCreate(a) THEN Raise(a, c)
  ELSE LET b == InitCtx(a) IN
       IF b.running
       THEN AfterEnsure(Ended(b, c, b.audioCtx), c, b.audioCtx)
       ELSE Suspend(b, [c EXCEPT !.pc = "resume1", !.mine = b.audioCtx, !.attempts = 1])

\* (variant: the value returned is the context the call resumed)
Returned_Resumed(a, call) == call.mine

\* ensureContextReady: return this.audioCtx
Returned(a, call) == a.audioCtx

\* ensureContextReady: the resume() awaited by a call settles (ok: resolved)
ResumeSettled(a, call, ok) ==
  LET a0 == Continue(a, call) IN
  IF ok
  THEN LET b == [a0 EXCEPT !.running = (@ \/ call.mine = a0.audioCtx)] IN
       AfterEnsure(Ended(b, call, Returned(b, call)), call, Returned(b, call))
  ELSE LET f == [call EXCEPT !.failures = @ + 1]
           a1 == [a0 EXCEPT !.failed = TRUE]
       IN IF call.pc = "resume1"
          THEN \* catch: this.audioCtx = null; this.initCtx(); resume() again
               LET a2 == [a1 EXCEPT !.audioCtx = Null, !.running = FALSE] IN
               IF ~CanCreate(a2) THEN Raise(a2, f)
               ELSE LET b == InitCtx(a2) IN
                    Suspend(b, [f EXCEPT !.pc = "resume2", !.mine = b.audioCtx,
                                         !.attempts = 2, !.recreations = 1])
          ELSE \* the second catch: return null
               AfterEnsure(Ended(a1, f, Null), f, Null)

\* unlock: primeFallbackAudio() has settled; recoverForActiveSession goes on
\* to enableBackgroundMode
PrimeSettled(a, call) ==
  \* the loop's last element is silentAudio: await a.play(); a.pause()
  LET a0 == [Continue(a, call) EXCEPT !.silentActual = FALSE] IN
  IF call.op = "unlock" THEN a0
  ELSE Ensure(a0, [call EXCEPT !.stage = "enable"])

\* disableBackgroundMode(): if (this.keepAliveOsc) { stop(); disconnect();
\* this.keepAliveOsc = null }; if (this.silentPlaying) { this.silentAudio.pause();
\* ...; this.silentPlaying = false }
Disable(a) ==
  [a EXCEPT !.keepAliveOsc = FALSE, !.silentPlaying = FALSE,
            !.oscillators = IF a.keepAliveOsc THEN @ - 1 ELSE @,
            !.oscCtx = Null,
            !.silentActual = IF a.silentPlaying THEN FALSE ELSE @]

\* handleStart calls suspended at an await
Pending(a) ==
  LET awaiting == {c \in BagToSet(a.calls) : c.op = "handleStart"} IN
  BagCardinality([c \in awaiting |-> a.calls[c]])

\* ------------------------------------------------- the fallback elements
\* The AudioService with the element pools (tickPool, dingPool, silentAudio)
\* and the ones with two elements (tickFallback, dingFallback).
Versions == {"pool", "single"}

\* all (audios) of primeFallbackAudio, numbered in the order of its loop
Elements(version) == IF version = "pool" THEN 1..(2 * PoolSize + 1) ELSE 1..2

\* createAudioEl / new Audio(src): no element is muted; no priming runs.
\* unlocked: an unlock() has settled
InitialFallback(version) ==
  [version |-> version, muted |-> [e \in Elements(version) |-> FALSE],
   priming |-> EmptyBag, unlocked |-> FALSE]

\* primeFallbackAudio's loop arrives at element e: a.muted = true;
\* a.currentTime = 0; await a.play()
PrimeElement(f, e) ==
  [f EXCEPT !.muted[e] = TRUE, !.priming = @ (+) SetToBag({e})]

\* primeFallbackAudio's loop after element e: the next element, or the end of
\* the loop and of unlock()
PrimeNext(f, e) ==
  IF e + 1 \in Elements(f.version) THEN PrimeElement(f, e + 1)
  ELSE [f EXCEPT !.unlocked = TRUE]

\* primeFallbackAudio: try { ... await a.play(); ... } catch { } inside the
\* loop, in the version with the pools only
CatchesInLoop(version) == version = "pool"

\* the play() awaited for element e settles (ok: resolved). Resolved:
\* a.pause(); a.currentTime = 0; a.muted = false; the loop goes on. Rejected,
\* with the catch inside the loop: a.muted = false; the loop goes on. Rejected,
\* without it: the exception leaves primeFallbackAudio and is caught by
\* unlock(), which ends
PlaySettled(f, e, ok) ==
  LET g == [f EXCEPT !.priming = @ (-) SetToBag({e})] IN
  IF ok \/ CatchesInLoop(f.version)
  THEN PrimeNext([g EXCEPT !.muted[e] = FALSE], e)
  ELSE [g EXCEPT !.unlocked = TRUE]

\* ----------------------------------------------------------------- Init
\* useRef<WakeLockSentinel | null>(null): no sentinel
NoWakeLock == [held |-> FALSE, unreleased |-> 0]

\* requestWakeLock: wakeLockRef.current = await navigator.wakeLock.request('screen')
\* when the request is granted; nothing when 'wakeLock' is not in navigator or
\* the request rejects (catch)
RequestWakeLock(w, granted) ==
  IF granted THEN [held |-> TRUE, unreleased |-> w.unreleased + 1] ELSE w

\* releaseWakeLock: if (wakeLockRef.current) { wakeLockRef.current.release()...;
\* wakeLockRef.current = null }
ReleaseWakeLock(w) ==
  IF w.held THEN [held |-> FALSE, unreleased |-> w.unreleased - 1] ELSE w

\* no handleStart is awaiting and no START is in flight
NoStarts == [pending |-> EmptyBag, queued |-> <<>>]

\* The state once App has mounted: the worker is constructed, the mount
\* effect has posted CONFIGURE and the settings effect INIT_STATE, CONFIGURE.
InitTimer ==
  /\ timerId = 0
  /\ timers = 0
  /\ state = InitialWorkerState
  /\ toWorker = <<Msg("CONFIGURE", Payload(DefaultSettings))>>
                \o SettingsEffect(DefaultSettings, "IDLE")
  /\ completedInFlight = 0
  /\ settings = DefaultSettings
  /\ status = "IDLE"
  /\ pendingStarts = 0
  /\ posted = <<>>
  /\ initTotal = 0
  /\ ticksSinceInit = 0
  /\ completions = 0
  /\ intervalEnds = 0
  /\ sinceBoundary = 0
  /\ intervalTicks = 0
  /\ resumed = FALSE
  /\ countdownTicks = {}
  /\ toView = <<>>
  /\ viewState = FromSettings(DefaultSettings)
  /\ resetLast = FALSE
  /\ played = <<>>
  /\ starts = NoStarts
  /\ wakeLock = NoWakeLock

\* The audio service is constructed with the module; it is left out of the
\* specifications of the timer, where it makes no call.
Init ==
  /\ InitTimer
  /\ audio = InitialAudio
  /\ isMobile = FALSE
  /\ fallback = InitialFallback("pool")

\* ------------------------------------------------------- worker actions
Head1(q) == q[1]

\* self.onmessage, case 'CONFIGURE'
OnConfigure ==
  /\ toWorker # <<>> /\ Head1(toWorker).type = "CONFIGURE"
  /\ state' = ConfigureState(state, Head1(toWorker).payload)
  /\ toWorker' = Tail(toWorker)
  /\ posted' = <<>>
  /\ UNCHANGED <<timerId, timers, completedInFlight, viewVars, histVars>>

\* self.onmessage, case 'INIT_STATE'
OnInitState ==
  /\ toWorker # <<>> /\ Head1(toWorker).type = "INIT_STATE"
  /\ state' = InitStateState(state, Head1(toWorker).payload)
  /\ toWorker' = Tail(toWorker)
  /\ posted' = <<>>
  /\ initTotal' = state'.totalTimeRemaining
  /\ ticksSinceInit' = 0
  /\ completions' = 0
  /\ intervalEnds' = 0
  /\ sinceBoundary' = 0
  /\ intervalTicks' = 0
  /\ resumed' = FALSE
  /\ countdownTicks' = {}
  /\ UNCHANGED <<timerId, timers, completedInFlight, viewVars>>

\* self.onmessage, case 'START'
OnStart ==
  /\ toWorker # <<>> /\ Head1(toWorker).type = "START"
  /\ timerId' = IF timerId = 0 THEN 1 ELSE timerId
  /\ timers' = SetTimers(timerId, timers)
  /\ toWorker' = Tail(toWorker)
  /\ posted' = <<>>
  /\ resumed' = (resumed \/ (timerId = 0 /\ ticksSinceInit > 0))
  /\ UNCHANGED <<state, completedInFlight, viewVars, initTotal, ticksSinceInit,
                 completions, intervalEnds, sinceBoundary, intervalTicks,
                 countdownTicks>>

\* self.onmessage, case 'PAUSE'
OnPause ==
  /\ toWorker # <<>> /\ Head1(toWorker).type = "PAUSE"
  /\ timerId' = 0
  /\ timers' = ClearTimers(timerId, timers)
  /\ toWorker' = Tail(toWorker)
  /\ posted' = <<>>
  /\ UNCHANGED <<state, completedInFlight, viewVars, histVars>>

\* self.onmessage, case 'RESET'
OnReset ==
  /\ toWorker # <<>> /\ Head1(toWorker).type = "RESET"
  /\ timerId' = 0
  /\ timers' = ClearTimers(timerId, timers)
  /\ state' = ResetState(state)
  /\ toWorker' = Tail(toWorker)
  /\ posted' = <<Post("TICK", state')>>
  /\ initTotal' = state'.totalTimeRemaining
  /\ ticksSinceInit' = 0
  /\ completions' = 0
  /\ intervalEnds' = 0
  /\ sinceBoundary' = 0
  /\ intervalTicks' = 0
  /\ resumed' = FALSE
  /\ countdownTicks' = {}
  /\ UNCHANGED <<completedInFlight, viewVars>>

\* tick(), called by an interval timer that is set
Tick ==
  /\ timers > 0
  /\ ticksSinceInit < MaxTicks
  /\ TickCompletes(state) => completedInFlight < MaxOutbox
  /\ state' = TickState(state)
  /\ timerId' = IF TickCompletes(state) THEN 0 ELSE timerId
  /\ timers' = IF TickCompletes(state) THEN ClearTimers(timerId, timers) ELSE timers
  /\ posted' = TickPosts(state)
  /\ completedInFlight' = completedInFlight + CountType(posted', "COMPLETED")
  /\ ticksSinceInit' = ticksSinceInit + 1
  /\ completions' = completions + CountType(posted', "COMPLETED")
  /\ intervalEnds' = intervalEnds + CountType(posted', "INTERVAL_END")
  /\ sinceBoundary' = IF HasType(posted', "INTERVAL_END") THEN 0 ELSE sinceBoundary + 1
  /\ intervalTicks' = IF HasType(posted', "INTERVAL_END") THEN sinceBoundary + 1
                      ELSE intervalTicks
  /\ countdownTicks' = (IF sinceBoundary = 0 THEN {} ELSE countdownTicks)
                        \cup (IF HasType(posted', "COUNTDOWN") THEN {sinceBoundary + 1}
                              ELSE {})
  /\ UNCHANGED <<toWorker, viewVars, initTotal, resumed>>

\* --------------------------------------------------------- view actions
\* Each handler is followed by the settings effect when it changed one of the
\* effect's dependencies.

\* the interval number input's onChange (rendered while status is IDLE)
EditInterval ==
  \E v \in 0..MaxInterval :
    /\ status = "IDLE"
    /\ v # settings.intervalLength
    /\ settings' = [settings EXCEPT !.intervalLength = v]
    /\ Len(toWorker) + 2 <= MaxInbox
    /\ toWorker' = toWorker \o SettingsEffect(settings', status)
    /\ UNCHANGED <<workerVars, completedInFlight, status, pendingStarts, posted, histVars>>

\* the session number input's onChange (rendered while status is IDLE)
EditDuration ==
  \E v \in 0..MaxDuration :
    /\ status = "IDLE"
    /\ v # settings.totalDuration
    /\ settings' = [settings EXCEPT !.totalDuration = v]
    /\ Len(toWorker) + 2 <= MaxInbox
    /\ toWorker' = toWorker \o SettingsEffect(settings', status)
    /\ UNCHANGED <<workerVars, completedInFlight, status, pendingStarts, posted, histVars>>

\* handleStart up to its first await (the Start/Resume button is rendered
\* unless status is RUNNING and is disabled when status is COMPLETED)
HandleStartBegin ==
  /\ status \in {"IDLE", "PAUSED"}
  /\ pendingStarts < MaxPending
  /\ pendingStarts' = pendingStarts + 1
  /\ UNCHANGED <<workerVars, toWorker, completedInFlight, settings, status, posted, histVars>>

\* handleStart after its awaits: setState(RUNNING), postMessage(START)
HandleStartFinish ==
  /\ pendingStarts > 0
  /\ pendingStarts' = pendingStarts - 1
  /\ status' = "RUNNING"
  /\ LET batch == <<Ctl("START")>>
                  \o (IF status' # status THEN SettingsEffect(settings, status') ELSE <<>>)
     IN /\ Len(toWorker) + Len(batch) <= MaxInbox
        /\ toWorker' = toWorker \o batch
  /\ UNCHANGED <<workerVars, completedInFlight, settings, posted, histVars>>

\* handlePause (the Pause button is rendered while status is RUNNING)
HandlePause ==
  /\ status = "RUNNING"
  /\ status' = "PAUSED"
  /\ Len(toWorker) + 2 <= MaxInbox
  /\ toWorker' = toWorker \o <<Ctl("PAUSE")>>
                 \o SettingsEffect(settings, status')
  /\ UNCHANGED <<workerVars, completedInFlight, settings, pendingStarts, posted, histVars>>

\* handleReset
HandleReset ==
  /\ status' = "IDLE"
  /\ LET batch == <<Ctl("RESET")>>
                  \o (IF status' # status THEN SettingsEffect(settings, status') ELSE <<>>)
     IN /\ Len(toWorker) + Len(batch) <= MaxInbox
        /\ toWorker' = toWorker \o batch
  /\ UNCHANGED <<workerVars, completedInFlight, settings, pendingStarts, posted, histVars>>

\* worker.onmessage in App for a COMPLETED message (messages of the other
\* types leave status as it is)
ViewOnCompleted ==
  /\ completedInFlight > 0
  /\ completedInFlight' = completedInFlight - 1
  /\ status' = StatusAfterMessage(status, "COMPLETED")
  /\ LET batch == IF status' # status THEN SettingsEffect(settings, status') ELSE <<>>
     IN /\ Len(toWorker) + Len(batch) <= MaxInbox
        /\ toWorker' = toWorker \o batch
  /\ UNCHANGED <<workerVars, settings, pendingStarts, posted, histVars>>

\* The worker's posts are kept in posted and counted in completedInFlight;
\* the view's copy of the countdown is left out of this specification.
Next ==
  \/ OnConfigure /\ UNCHANGED <<copyVars, audioVars, resetLast, played, starts, wakeLock>>
  \/ OnInitState /\ UNCHANGED <<copyVars, audioVars, resetLast, played, starts, wakeLock>>
  \/ OnStart /\ UNCHANGED <<copyVars, audioVars, resetLast, played, starts, wakeLock>>
  \/ OnPause /\ UNCHANGED <<copyVars, audioVars, resetLast, played, starts, wakeLock>>
  \/ OnReset /\ UNCHANGED <<copyVars, audioVars, resetLast, played, starts, wakeLock>>
  \/ Tick /\ UNCHANGED <<copyVars, audioVars, resetLast, played, starts, wakeLock>>
  \/ EditInterval /\ UNCHANGED <<copyVars, audioVars, resetLast, played, starts, wakeLock>>
  \/ EditDuration /\ UNCHANGED <<copyVars, audioVars, resetLast, played, starts, wakeLock>>
  \/ HandleStartBegin /\ UNCHANGED <<copyVars, audioVars, resetLast, played, starts, wakeLock>>
  \/ HandleStartFinish /\ UNCHANGED <<copyVars, audioVars, resetLast, played, starts, wakeLock>>
  \/ HandlePause /\ UNCHANGED <<copyVars, audioVars, resetLast, played, starts, wakeLock>>
  \/ HandleReset /\ UNCHANGED <<copyVars, audioVars, resetLast, played, starts, wakeLock>>
  \/ ViewOnCompleted /\ UNCHANGED <<copyVars, audioVars, resetLast, played, starts, wakeLock>>

Spec == Init /\ [][Next]_vars

\* The worker's event loop handles every message it is sent, a set interval
\* timer keeps firing, and the view's event loop handles every COMPLETED it
\* is sent.
Fairness ==
  /\ WF_timerVars(OnConfigure)
  /\ WF_timerVars(OnInitState)
  /\ WF_timerVars(OnStart)
  /\ WF_timerVars(OnPause)
  /\ WF_timerVars(OnReset)
  /\ WF_timerVars(Tick)
  /\ WF_timerVars(ViewOnCompleted)

FairSpec == Spec /\ Fairness

\* ------------------------------------------- the view's copy of the countdown
\* The settings typed into the inputs before the session.
TypedSettings ==
  [intervalLength : 0..MaxInterval, totalDuration : 0..MaxDuration]

\* The state once the settings have been typed and the worker has handled
\* the INIT_STATE and CONFIGURE messages of the settings effect.
InitView ==
  \E st \in TypedSettings :
    /\ timerId = 0
    /\ timers = 0
    /\ state = ConfigureState(InitStateState(InitialWorkerState, Payload(st)), Payload(st))
    /\ toWorker = <<>>
    /\ completedInFlight = 0
    /\ settings = st
    /\ status = "IDLE"
    /\ pendingStarts = 0
    /\ posted = <<>>
    /\ initTotal = st.totalDuration * SecondsPerMinute
    /\ ticksSinceInit = 0
    /\ completions = 0
    /\ intervalEnds = 0
    /\ sinceBoundary = 0
    /\ intervalTicks = 0
    /\ resumed = FALSE
    /\ countdownTicks = {}
    /\ toView = <<>>
    /\ viewState = FromSettings(st)
    /\ resetLast = FALSE
    /\ played = <<>>
    /\ starts = NoStarts
    /\ wakeLock = NoWakeLock
    /\ audio = InitialAudio
    /\ isMobile = FALSE
    /\ fallback = InitialFallback("pool")

\* self.postMessage(...): the messages of a worker step join the view's queue
SendToView ==
  /\ Len(toView) + Len(posted') <= MaxToView
  /\ toView' = toView \o posted'
  /\ UNCHANGED viewState

\* worker.onmessage in App: setState copies the three countdown fields from
\* the message's state object; a COMPLETED message also sets the status
ViewOnMessage ==
  /\ toView # <<>>
  /\ viewState' = Countdown(Received(Head(toView), state))
  /\ toView' = Tail(toView)
  /\ IF Head(toView).type = "COMPLETED" THEN ViewOnCompleted ELSE UNCHANGED timerVars

\* The settings stay as typed; every worker post is delivered to the view.
NextView ==
  \/ OnConfigure /\ UNCHANGED <<copyVars, audioVars, resetLast, played, starts, wakeLock>>
  \/ OnInitState /\ UNCHANGED <<copyVars, audioVars, resetLast, played, starts, wakeLock>>
  \/ OnStart /\ UNCHANGED <<copyVars, audioVars, resetLast, played, starts, wakeLock>>
  \/ OnPause /\ UNCHANGED <<copyVars, audioVars, resetLast, played, starts, wakeLock>>
  \/ OnReset /\ SendToView /\ UNCHANGED <<audioVars, resetLast, played, starts, wakeLock>>
  \/ Tick /\ SendToView /\ UNCHANGED <<audioVars, resetLast, played, starts, wakeLock>>
  \/ HandleStartBegin /\ UNCHANGED <<copyVars, audioVars, resetLast, played, starts, wakeLock>>
  \/ HandleStartFinish /\ UNCHANGED <<copyVars, audioVars, resetLast, played, starts, wakeLock>>
  \/ HandlePause /\ UNCHANGED <<copyVars, audioVars, resetLast, played, starts, wakeLock>>
  \/ HandleReset /\ viewState' = FromSettings(settings) /\ UNCHANGED <<toView, audioVars, resetLast, played, starts, wakeLock>>
  \/ ViewOnMessage /\ played' = MessageCalls(Head(toView).type)
       /\ UNCHANGED <<audioVars, resetLast, starts, wakeLock>>

ViewSpec == InitView /\ [][NextView]_vars

\* ------------------------------------- the settings, the view and the worker
\* The whole App once the first settings are typed: the settings are edited
\* again, every worker post is delivered to the view, and the settings effect
\* sets the view's copy of the countdown while the status is IDLE.
NextApp ==
  \/ OnConfigure /\ UNCHANGED <<copyVars, audioVars, resetLast, played, starts, wakeLock>>
  \/ OnInitState /\ UNCHANGED <<copyVars, audioVars, resetLast, played, starts, wakeLock>>
  \/ OnStart /\ UNCHANGED <<copyVars, audioVars, resetLast, played, starts, wakeLock>>
  \/ OnPause /\ UNCHANGED <<copyVars, audioVars, resetLast, played, starts, wakeLock>>
  \/ OnReset /\ SendToView /\ UNCHANGED <<audioVars, resetLast, played, starts, wakeLock>>
  \/ Tick /\ SendToView /\ UNCHANGED <<audioVars, resetLast, played, starts, wakeLock>>
  \/ EditInterval /\ viewState' = FromSettings(settings') /\ resetLast' = FALSE
       /\ UNCHANGED <<toView, audioVars, played, starts, wakeLock>>
  \/ EditDuration /\ viewState' = FromSettings(settings') /\ resetLast' = FALSE
       /\ UNCHANGED <<toView, audioVars, played, starts, wakeLock>>
  \/ HandleStartBegin /\ resetLast' = FALSE /\ UNCHANGED <<copyVars, audioVars, played, starts, wakeLock>>
  \/ HandleStartFinish /\ resetLast' = FALSE /\ UNCHANGED <<copyVars, audioVars, played, starts, wakeLock>>
  \/ HandlePause /\ resetLast' = FALSE /\ UNCHANGED <<copyVars, audioVars, played, starts, wakeLock>>
  \/ HandleReset /\ viewState' = FromSettings(settings) /\ resetLast' = TRUE
       /\ UNCHANGED <<toView, audioVars, played, starts, wakeLock>>
  \/ ViewOnMessage /\ UNCHANGED <<audioVars, resetLast, played, starts, wakeLock>>

AppSpec == InitView /\ [][NextApp]_vars

\* ------------------------------------------------- the audio service's calls
\* What the steps below leave alone: the worker and the messages.
timerRest == <<timerId, timers, state, toWorker, completedInFlight, settings, posted,
               initTotal, ticksSinceInit, completions, intervalEnds, sinceBoundary,
               intervalTicks, resumed, countdownTicks, copyVars, isMobile,
               resetLast, played, starts, wakeLock, fallback>>

\* The device is a mobile one or not.
InitAudio ==
  /\ InitTimer
  /\ audio = InitialAudio
  /\ isMobile \in BOOLEAN
  /\ fallback = InitialFallback("pool")

\* the audio service after a step, its suspended calls within the bound
AudioStep(a) ==
  /\ BagCardinality(a.calls) <= MaxCalls
  /\ audio' = a
  /\ pendingStarts' = Pending(a)

\* handleStart up to its first await: audioService.recoverForActiveSession()
\* enters unlock() and its ensureContextReady()
AudioHandleStart ==
  /\ status \in {"IDLE", "PAUSED"}
  /\ pendingStarts < MaxPending
  /\ AudioStep(Ensure(audio, NewCall("handleStart")))
  /\ UNCHANGED <<status, timerRest>>

\* a resume() awaited in ensureContextReady resolves or rejects
ResumeSettles ==
  \E call \in BagToSet(audio.calls), ok \in BOOLEAN :
    /\ call.pc \in {"resume1", "resume2"}
    /\ AudioStep(ResumeSettled(audio, call, ok))
    /\ UNCHANGED <<status, timerRest>>

\* the primeFallbackAudio() awaited in unlock settles
PrimeSettles ==
  \E call \in BagToSet(audio.calls) :
    /\ call.pc = "prime"
    /\ AudioStep(PrimeSettled(audio, call))
    /\ UNCHANGED <<status, timerRest>>

\* handleStart after await requestWakeLock(): triggerAlert (playDing),
\* setState(RUNNING), postMessage(START)
WakeLockSettles ==
  \E call \in BagToSet(audio.calls) :
    /\ call.pc = "wakeLock"
    /\ status' = "RUNNING"
    /\ AudioStep(Ensure(Continue(audio, call), NewCall("playDing")))
    /\ UNCHANGED timerRest

\* handlePause: setState(PAUSED), ..., audioService.disableBackgroundMode()
AudioHandlePause ==
  /\ status = "RUNNING"
  /\ status' = "PAUSED"
  /\ AudioStep(Disable(audio))
  /\ UNCHANGED timerRest

\* handleReset: setState(IDLE), ..., audioService.disableBackgroundMode()
AudioHandleReset ==
  /\ status' = "IDLE"
  /\ AudioStep(Disable(audio))
  /\ UNCHANGED timerRest

\* worker.onmessage in App, the audio it plays: COUNTDOWN -> playTick();
\* INTERVAL_END, COMPLETED -> triggerAlert (playDing); COMPLETED also sets the
\* status and calls disableBackgroundMode(). The worker's loop is not part of
\* these steps: a message may come whenever the status is RUNNING.
AudioOnMessage ==
  \E type \in {"COUNTDOWN", "INTERVAL_END", "COMPLETED"} :
    /\ status = "RUNNING"
    /\ status' = StatusAfterMessage(status, type)
    /\ LET calls == MessageCalls(type)
           sounded == Ensure(audio, NewCall(calls[1]))
       IN AudioStep(IF CallsOf(calls, "disableBackgroundMode") > 0
                    THEN Disable(sounded) ELSE sounded)
    /\ UNCHANGED timerRest

\* recoverAudio (touchstart, pointerdown, focus, pageshow, visibilitychange)
\* and the 15 s health check: recoverForActiveSession() when the status is
\* RUNNING, else unlock(); unlockAudio (touchstart, pointerdown): unlock()
RecoverAudio ==
  \E op \in {"unlock"} \cup (IF status = "RUNNING" THEN {"recover"} ELSE {}) :
    /\ AudioStep(Ensure(audio, NewCall(op)))
    /\ UNCHANGED <<status, timerRest>>

\* the platform suspends the running audio context (the page goes to the
\* background, the screen locks)
ContextSuspended ==
  /\ audio.audioCtx # Null
  /\ audio.running
  /\ AudioStep([audio EXCEPT !.running = FALSE])
  /\ UNCHANGED <<status, timerRest>>

\* enableBackgroundMode: this.silentAudio.play().catch(() => { this.silentPlaying = false; })
SilentPlayRejected ==
  /\ audio.silentPlaying
  /\ AudioStep([audio EXCEPT !.silentPlaying = FALSE, !.silentActual = FALSE])
  /\ UNCHANGED <<status, timerRest>>

NextAudio ==
  \/ AudioHandleStart
  \/ ResumeSettles
  \/ PrimeSettles
  \/ WakeLockSettles
  \/ AudioHandlePause
  \/ AudioHandleReset
  \/ AudioOnMessage
  \/ RecoverAudio
  \/ ContextSuspended
  \/ SilentPlayRejected

AudioSpec == InitAudio /\ [][NextAudio]_vars

\* ------------------------------------------- the clicks behind each START
\* The timer's steps, with the status at the click of each handleStart kept
\* up to the START it posts and to the worker's handling of that START.
NextStart ==
  \/ OnConfigure /\ UNCHANGED <<copyVars, audioVars, resetLast, played, starts, wakeLock>>
  \/ OnInitState /\ UNCHANGED <<copyVars, audioVars, resetLast, played, starts, wakeLock>>
  \/ OnStart /\ starts' = [starts EXCEPT !.queued = Tail(@)]
             /\ UNCHANGED <<copyVars, audioVars, resetLast, played, wakeLock>>
  \/ OnPause /\ UNCHANGED <<copyVars, audioVars, resetLast, played, starts, wakeLock>>
  \/ OnReset /\ UNCHANGED <<copyVars, audioVars, resetLast, played, starts, wakeLock>>
  \/ Tick /\ UNCHANGED <<copyVars, audioVars, resetLast, played, starts, wakeLock>>
  \/ EditInterval /\ UNCHANGED <<copyVars, audioVars, resetLast, played, starts, wakeLock>>
  \/ EditDuration /\ UNCHANGED <<copyVars, audioVars, resetLast, played, starts, wakeLock>>
  \/ HandleStartBegin /\ starts' = [starts EXCEPT !.pending = @ (+) SetToBag({status})]
                      /\ UNCHANGED <<copyVars, audioVars, resetLast, played, wakeLock>>
  \/ HandleStartFinish
       /\ \E clicked \in BagToSet(starts.pending) :
            starts' = [pending |-> starts.pending (-) SetToBag({clicked}),
                       queued |-> Append(starts.queued,
                                         [clicked |-> clicked, sent |-> status])]
       /\ UNCHANGED <<copyVars, audioVars, resetLast, played, wakeLock>>
  \/ HandlePause /\ UNCHANGED <<copyVars, audioVars, resetLast, played, starts, wakeLock>>
  \/ HandleReset /\ UNCHANGED <<copyVars, audioVars, resetLast, played, starts, wakeLock>>
  \/ ViewOnCompleted /\ UNCHANGED <<copyVars, audioVars, resetLast, played, starts, wakeLock>>

StartSpec == Init /\ [][NextStart]_vars

\* ------------------------------------------------------ the wake lock
\* The timer's steps, with the screen wake lock: handleStart's
\* requestWakeLock() settles right before its setState(RUNNING); handlePause,
\* handleReset and the COMPLETED message call releaseWakeLock().
NextLock ==
  \/ OnConfigure /\ UNCHANGED <<copyVars, audioVars, resetLast, played, starts, wakeLock>>
  \/ OnInitState /\ UNCHANGED <<copyVars, audioVars, resetLast, played, starts, wakeLock>>
  \/ OnStart /\ UNCHANGED <<copyVars, audioVars, resetLast, played, starts, wakeLock>>
  \/ OnPause /\ UNCHANGED <<copyVars, audioVars, resetLast, played, starts, wakeLock>>
  \/ OnReset /\ UNCHANGED <<copyVars, audioVars, resetLast, played, starts, wakeLock>>
  \/ Tick /\ UNCHANGED <<copyVars, audioVars, resetLast, played, starts, wakeLock>>
  \/ EditInterval /\ UNCHANGED <<copyVars, audioVars, resetLast, played, starts, wakeLock>>
  \/ EditDuration /\ UNCHANGED <<copyVars, audioVars, resetLast, played, starts, wakeLock>>
  \/ HandleStartBegin /\ UNCHANGED <<copyVars, audioVars, resetLast, played, starts, wakeLock>>
  \/ HandleStartFinish
       /\ \E granted \in BOOLEAN :
            /\ granted => wakeLock.unreleased < MaxLocks
            /\ wakeLock' = RequestWakeLock(wakeLock, granted)
       /\ UNCHANGED <<copyVars, audioVars, resetLast, played, starts>>
  \/ HandlePause /\ wakeLock' = ReleaseWakeLock(wakeLock)
       /\ UNCHANGED <<copyVars, audioVars, resetLast, played, starts>>
  \/ HandleReset /\ wakeLock' = ReleaseWakeLock(wakeLock)
       /\ UNCHANGED <<copyVars, audioVars, resetLast, played, starts>>
  \/ ViewOnCompleted /\ wakeLock' = ReleaseWakeLock(wakeLock)
       /\ UNCHANGED <<copyVars, audioVars, resetLast, played, starts>>

LockSpec == Init /\ [][NextLock]_vars

\* ------------------------------------------------- priming the elements
\* unlock() calls and the play() promises of their primeFallbackAudio(), for
\* each AudioService of the repository.
InitPrime ==
  /\ InitTimer
  /\ audio = InitialAudio
  /\ isMobile = FALSE
  /\ \E version \in Versions : fallback = InitialFallback(version)

\* unlock() (recoverAudio, unlockAudio, handleStart, the health check) arrives
\* at await this.primeFallbackAudio()
UnlockPrimes ==
  /\ BagCardinality(fallback.priming) < MaxCalls
  /\ fallback' = PrimeElement(fallback, 1)
  /\ UNCHANGED <<timerVars, copyVars, audio, isMobile, resetLast, played, starts, wakeLock>>

\* a play() awaited in primeFallbackAudio resolves or rejects
PlaySettles ==
  \E e \in BagToSet(fallback.priming), ok \in BOOLEAN :
    /\ fallback' = PlaySettled(fallback, e, ok)
    /\ UNCHANGED <<timerVars, copyVars, audio, isMobile, resetLast, played, starts, wakeLock>>

NextPrime ==
  \/ UnlockPrimes
  \/ PlaySettles

PrimeSpec == InitPrime /\ [][NextPrime]_vars

\* ================================================================ claims
Snapshots == {posted[i].state : i \in 1..Len(posted)}

LastPosted == posted[Len(posted)]

\* ------------------------------------------------------------------- C1
\* C1 as stated: in every worker state and every posted snapshot,
\* 0 <= totalTimeRemaining <= totalDuration * 60, totalDuration being the
\* configured session length.
C1_BoundedByConfiguredDuration ==
  \A s \in {state} \cup Snapshots :
    /\ 0 <= s.totalTimeRemaining
    /\ s.totalTimeRemaining <= s.totalDuration * SecondsPerMinute

\* C1 amended: in every worker state and every posted snapshot,
\* totalTimeRemaining is never negative and never above the value the latest
\* INIT_STATE or RESET gave it (60 times the duration of that INIT_STATE's
\* payload, or of the configuration at that RESET).
C1_BoundedByInitialTotal ==
  \A s \in {state} \cup Snapshots :
    /\ 0 <= s.totalTimeRemaining
    /\ s.totalTimeRemaining <= initTotal

\* C1 witness: a running session has counted down to zero and posted it.
C1_Witness ==
  /\ initTotal > 0
  /\ posted # <<>>
  /\ LastPosted.type = "COMPLETED"
  /\ LastPosted.state.totalTimeRemaining = 0
  /\ ticksSinceInit = initTotal

C3_DecrementsByOne ==
  /\ [][(Tick /\ ~HasType(posted', "COMPLETED")) =>
          state'.totalTimeRemaining = state.totalTimeRemaining - 1]_vars
  /\ [][state'.totalTimeRemaining # state.totalTimeRemaining =>
          (Tick \/ OnInitState \/ OnReset)]_vars
  /\ [][state'.totalTimeRemaining > state.totalTimeRemaining =>
          (OnInitState \/ OnReset)]_vars

\* C3 witness: several ticks into a running session, each has taken one
\* second off.
C3_Witness ==
  /\ timerId # 0
  /\ ticksSinceInit >= 3
  /\ posted # <<>> /\ LastPosted.type = "TICK"
  /\ state.totalTimeRemaining = initTotal - ticksSinceInit

\* ------------------------------------------------------------------- C4
\* C4: in a session initialised with totalDuration >= 1, the session's
\* COMPLETED (the first since the initialisation) is posted on exactly the
\* (totalDuration * 60)-th tick since the initialisation, whatever PAUSE and
\* START messages come between the ticks: before that tick none has been
\* posted, from that tick on one has.
C4_CompletesOnLastSecond ==
  initTotal >= SecondsPerMinute =>
    /\ (completions >= 1 <=> ticksSinceInit >= initTotal)
    /\ ((posted # <<>> /\ LastPosted.type = "COMPLETED" /\ completions = 1)
          => ticksSinceInit = initTotal)

\* C4 witness: a session that was paused and resumed on the way has just
\* posted its COMPLETED.
C4_Witness ==
  /\ initTotal >= SecondsPerMinute
  /\ resumed
  /\ posted # <<>> /\ LastPosted.type = "COMPLETED"
  /\ completions = 1
  /\ ticksSinceInit = initTotal

\* ------------------------------------------------------------------- C5
\* C5 as stated: after a tick that posted INTERVAL_END, currentIntervalTime
\* is the configured intervalLength.
C5_WrapsToIntervalLength ==
  (posted # <<>> /\ LastPosted.type = "INTERVAL_END") =>
    state.currentIntervalTime = state.intervalLength

\* C5 amended: a non-completing tick taken with no interval time left (the
\* interval remaining rolls over) sets currentIntervalTime to
\* intervalLength - 1, increments intervalsCompleted by exactly 1 and posts
\* INTERVAL_END carrying that state; no other tick posts INTERVAL_END.
C5_WrapsToIntervalLengthMinusOne ==
  [][Tick =>
       /\ (HasType(posted', "INTERVAL_END") <=>
             (state.totalTimeRemaining > 1 /\ state.currentIntervalTime <= 0))
       /\ (HasType(posted', "INTERVAL_END") =>
             /\ state'.currentIntervalTime = state.intervalLength - 1
             /\ state'.intervalsCompleted = state.intervalsCompleted + 1
             /\ posted'[Len(posted')] = Post("INTERVAL_END", state'))]_vars

\* C5 witness: an interval of length 4 has rolled over.
C5_Witness ==
  /\ posted # <<>> /\ LastPosted.type = "INTERVAL_END"
  /\ state.intervalLength = 4
  /\ state.currentIntervalTime = 3
  /\ state.intervalsCompleted >= 1

\* ------------------------------------------------------------------- C6
\* C6: whenever the configured intervalLength is at least 1, the worker's
\* state and every snapshot it posts satisfy
\* 0 <= currentIntervalTime < intervalLength.
C6_IntervalTimeInHalfOpenRange ==
  \A s \in {state} \cup Snapshots :
    s.intervalLength >= 1 =>
      (0 <= s.currentIntervalTime /\ s.currentIntervalTime < s.intervalLength)

\* ------------------------------------------------------------------- C7
\* C7: currentIntervalTime is never negative in a snapshot the worker posts,
\* for every interval length the settings input accepts (0 included).
C7_PostedIntervalTimeNotNegative ==
  \A s \in Snapshots : s.currentIntervalTime >= 0

\* ------------------------------------------------------------------- C8
\* C8: on a tick intervalsCompleted changes exactly when the tick posts
\* INTERVAL_END, and then by +1; otherwise it changes only by INIT_STATE or
\* RESET setting it to 0; so it always equals the number of INTERVAL_END
\* messages posted since the latest INIT_STATE/RESET.
C8_CounterCountsIntervalEnds ==
  /\ [](state.intervalsCompleted = intervalEnds)
  /\ [][Tick =>
          /\ (state'.intervalsCompleted # state.intervalsCompleted
                <=> HasType(posted', "INTERVAL_END"))
          /\ (HasType(posted', "INTERVAL_END")
                => state'.intervalsCompleted = state.intervalsCompleted + 1)]_vars
  /\ [][(state'.intervalsCompleted # state.intervalsCompleted /\ ~Tick) =>
          ((OnInitState \/ OnReset) /\ state'.intervalsCompleted = 0)]_vars

\* C8 witness: the second INTERVAL_END of a session has been posted and the
\* counter stands at 2.
C8_Witness ==
  /\ posted # <<>> /\ LastPosted.type = "INTERVAL_END"
  /\ intervalEnds = 2
  /\ state.intervalsCompleted = 2

\* ------------------------------------------------------------------- C9
\* C9: with intervalLength = L >= 1, every INTERVAL_END is posted on the
\* L-th tick after the session's initialisation or after the previous
\* INTERVAL_END: every interval, the first included, lasts L ticks.
C9_EveryIntervalLastsIntervalLength ==
  (posted # <<>> /\ LastPosted.type = "INTERVAL_END" /\ state.intervalLength >= 1)
    => intervalTicks = state.intervalLength

\* ------------------------------------------------------------------ C10
\* C10: a tick that does not complete the session posts COUNTDOWN exactly
\* when the interval time at the start of the tick is 1, 2 or 3, and posts it
\* before the tick's TICK or INTERVAL_END; the completing tick posts no
\* COUNTDOWN.
C10_CountdownInLastThreeSeconds ==
  [][Tick =>
       IF HasType(posted', "COMPLETED")
       THEN ~HasType(posted', "COUNTDOWN")
       ELSE /\ (HasType(posted', "COUNTDOWN") <=> state.currentIntervalTime \in 1..3)
            /\ (HasType(posted', "COUNTDOWN") =>
                  /\ Len(posted') = 2
                  /\ posted'[1].type = "COUNTDOWN"
                  /\ posted'[2].type \in {"TICK", "INTERVAL_END"})
            /\ (~HasType(posted', "COUNTDOWN") =>
                  /\ Len(posted') = 1
                  /\ posted'[1].type \in {"TICK", "INTERVAL_END"})]_vars

\* C10 witness: a tick started with 3 seconds left in the interval and posted
\* COUNTDOWN, then TICK.
C10_Witness ==
  /\ Len(posted) = 2
  /\ posted[1].type = "COUNTDOWN"
  /\ posted[1].state.currentIntervalTime = 3
  /\ posted[2].type = "TICK"
  /\ posted[2].state.currentIntervalTime = 2

\* ------------------------------------------------------------------ C11
\* C11 as stated: each tick posts exactly one message.
C11_ExactlyOneMessagePerTick ==
  [][Tick => Len(posted') = 1]_vars

StateMessages == {"TICK", "INTERVAL_END", "COMPLETED"}

\* C11 amended: each tick posts exactly one message of the types TICK,
\* INTERVAL_END and COMPLETED, as its last message and carrying the state the
\* tick leaves; a tick that does not complete the session and starts with 1,
\* 2 or 3 seconds of interval time posts one COUNTDOWN before it, so a tick
\* posts one or two messages.
C11_OneStateMessagePerTick ==
  [][Tick =>
       /\ Cardinality({i \in 1..Len(posted') : posted'[i].type \in StateMessages}) = 1
       /\ posted'[Len(posted')].type \in StateMessages
       /\ posted'[Len(posted')].state = state'
       /\ Len(posted') = IF state.totalTimeRemaining > 1
                            /\ state.currentIntervalTime \in 1..CountdownWindow
                         THEN 2 ELSE 1
       /\ (Len(posted') = 2 => posted'[1].type = "COUNTDOWN")]_vars

\* C11 witness: the tick that took the interval time from 1 to 0 posted two
\* messages, COUNTDOWN and TICK.
C11_Witness ==
  /\ Len(posted) = 2
  /\ posted[1].type = "COUNTDOWN"
  /\ posted[1].state.currentIntervalTime = 1
  /\ posted[2] = Post("TICK", state)
  /\ state.currentIntervalTime = 0

\* ------------------------------------------------------------------ C15
\* C15: a set timer is cleared only by PAUSE, RESET or the completing tick,
\* a timer is set only by START; CONFIGURE changes nothing but intervalLength
\* and totalDuration (to the payload's), INIT_STATE nothing but
\* currentIntervalTime, totalTimeRemaining and intervalsCompleted; neither
\* sets or clears a timer and neither posts a message.
C15_OnlyStopMessagesStopTheLoop ==
  /\ [][(timers' < timers \/ (timerId # 0 /\ timerId' = 0)) =>
          (OnPause \/ OnReset \/ (Tick /\ HasType(posted', "COMPLETED")))]_vars
  /\ [][(timers' > timers \/ (timerId = 0 /\ timerId' # 0)) => OnStart]_vars
  /\ [][OnConfigure =>
          /\ Countdown(state') = Countdown(state)
          /\ Configuration(state') = <<Head1(toWorker).payload.intervalLength,
                                       Head1(toWorker).payload.totalDuration>>
          /\ timerId' = timerId /\ timers' = timers
          /\ posted' = <<>>]_vars
  /\ [][OnInitState =>
          /\ Configuration(state') = Configuration(state)
          /\ Countdown(state') = <<Head1(toWorker).payload.intervalLength,
                                   Head1(toWorker).payload.totalDuration * SecondsPerMinute,
                                   0>>
          /\ timerId' = timerId /\ timers' = timers
          /\ posted' = <<>>]_vars

\* C15 witness: INIT_STATE with an interval length of 2 has been handled
\* while the configuration still holds the initial 60.
C15_Witness ==
  /\ state.currentIntervalTime = 2
  /\ state.intervalLength = DefaultIntervalLength
  /\ ticksSinceInit = 0
  /\ posted = <<>>
  /\ timerId = 0

\* ------------------------------------------------------------------ C18
\* C18: at most one interval timer is set at any time, and it is the one
\* timerId names; a START handled while a timer is set sets none; so ticks
\* come from one timer and each lowers totalTimeRemaining by at most 1.
C18_SingleTimer ==
  /\ [](timers <= 1 /\ (timers = 1 <=> timerId # 0))
  /\ [][OnStart => (timers' = 1 /\ (timerId # 0 => timers' = timers))]_vars
  /\ [][Tick => state.totalTimeRemaining - state'.totalTimeRemaining <= 1]_vars

\* C18 witness: two overlapping handleStart calls have both posted START; the
\* first set the timer, which has ticked, and the second is at the head of
\* the worker's inbox.
C18_Witness ==
  /\ timers = 1 /\ timerId # 0
  /\ ticksSinceInit > 0
  /\ pendingStarts = 0
  /\ toWorker # <<>> /\ Head1(toWorker).type = "START"

\* ------------------------------------------------------------------ C19
\* C19: PAUSE leaves the worker's state object as it is, clears the timer
\* and posts nothing; no tick happens while the timer is cleared; only
\* START sets it again, changing no state; while it is cleared the countdown
\* values change only by INIT_STATE or RESET; so until the session completes
\* totalTimeRemaining is the initial total less the ticks taken, pauses or
\* not.
C19_PauseKeepsCountdown ==
  /\ [][OnPause => (state' = state /\ posted' = <<>> /\ timerId' = 0 /\ timers' = 0)]_vars
  /\ [][Tick => timerId # 0]_vars
  /\ [][(timerId = 0 /\ timerId' # 0) => (OnStart /\ state' = state)]_vars
  /\ [][(timerId = 0 /\ Countdown(state') # Countdown(state)) =>
          (OnInitState \/ OnReset)]_vars
  /\ [](completions = 0 => state.totalTimeRemaining = initTotal - ticksSinceInit)

\* C19 witness: a session paused after a tick and started again has ticked
\* on from the value it was paused at.
C19_Witness ==
  /\ resumed
  /\ completions = 0
  /\ timerId # 0
  /\ posted # <<>> /\ LastPosted.type = "TICK"
  /\ ticksSinceInit >= 2
  /\ state.totalTimeRemaining = initTotal - ticksSinceInit

\* ------------------------------------------------------------------ C20
\* C20: RESET clears the timer, sets currentIntervalTime to the worker's
\* configured intervalLength, totalTimeRemaining to its configured
\* totalDuration * 60 and intervalsCompleted to 0, leaves the configuration,
\* and posts exactly one message, a TICK carrying that state.
C20_ResetRestoresConfigured ==
  [][OnReset =>
       /\ timerId' = 0 /\ timers' = 0
       /\ Countdown(state') = <<state.intervalLength,
                                state.totalDuration * SecondsPerMinute, 0>>
       /\ Configuration(state') = Configuration(state)
       /\ posted' = <<Post("TICK", state')>>]_vars

\* C20 witness: RESET was handled after a session of one minute had
\* completed (its COMPLETED is still on the way to the view) and has posted
\* the restored state.
C20_Witness ==
  /\ posted = <<Post("TICK", state)>>
  /\ completedInFlight = 1
  /\ timerId = 0
  /\ state.totalDuration = 1
  /\ state.totalTimeRemaining = SecondsPerMinute
  /\ state.currentIntervalTime = state.intervalLength
  /\ state.intervalsCompleted = 0

\* ------------------------------------------------------------------ C16
\* A session whose length was typed into the settings input (at most
\* MaxDuration minutes, 0 included) and whose remaining ticks (one more at
\* least) are among the ticks modelled.
TypedSession ==
  /\ initTotal <= SecondsPerMinute * MaxDuration
  /\ ticksSinceInit + (IF state.totalTimeRemaining > 0 THEN state.totalTimeRemaining ELSE 1)
       <= MaxTicks

\* The view has been paused or reset, or its PAUSE or RESET is on the way to
\* the worker.
PausedOrReset ==
  \/ status \in {"IDLE", "PAUSED"}
  \/ HasType(toWorker, "PAUSE")
  \/ HasType(toWorker, "RESET")

\* C16: under fair ticking and message handling, whenever the worker's timer
\* is set for a session of a typed length (any interval length, 0 included),
\* eventually the session has posted COMPLETED and the view's status is
\* COMPLETED, unless the session is paused or reset first.
C16_StartedSessionCompletes ==
  (timerId # 0 /\ TypedSession)
    ~> ((completions > 0 /\ status = "COMPLETED") \/ PausedOrReset)

\* C16 witness: a one-minute session with interval length 0, started and
\* never paused or reset, has completed on its 60th tick and the view shows
\* COMPLETED.
C16_Witness ==
  /\ status = "COMPLETED"
  /\ completions = 1
  /\ ticksSinceInit = SecondsPerMinute
  /\ initTotal = SecondsPerMinute
  /\ state.intervalLength = 0
  /\ ~resumed
  /\ timerId = 0

\* ------------------------------------------------------------------ C14
\* C14: when the view handles a worker message its three countdown fields
\* become those of the snapshot that message carries, whatever the worker's
\* state has become since the post; and a message in flight is never changed
\* by a later step: the queue only grows at the tail and shrinks at the head.
C14_AppliedPerMessage ==
  /\ [][ViewOnMessage => viewState' = Countdown(Head(toView).state)]_vars
  /\ [][~ViewOnMessage =>
          (Len(toView') >= Len(toView) /\ SubSeq(toView', 1, Len(toView)) = toView)]_vars
  /\ [][ViewOnMessage => toView' = Tail(toView)]_vars

\* C14 witness: the view has applied the snapshot of one tick while the
\* worker has already ticked again and that tick's messages are in flight.
C14_Witness ==
  /\ toView # <<>>
  /\ toView[Len(toView)].state = state
  /\ viewState # Countdown(state)
  /\ viewState[2] = state.totalTimeRemaining + 1
  /\ ticksSinceInit >= 2

\* C12: one call of ensureContextReady makes at most two resume attempts and
\* recreates the context at most once; it returns null exactly when no context
\* exists or both resume attempts failed, and otherwise the service's current
\* context. (Violated: when the AudioContext constructor throws, the call
\* raises instead of returning null.)
C12_EnsureContextReadyContract ==
  LET e == audio.lastEnsure IN
  e.result # NoneYet =>
    /\ e.attempts <= 2
    /\ e.recreations <= 1
    /\ e.result # Raised
    /\ (e.result = Null) <=> (~e.exists \/ e.failures = 2)
    /\ e.result # Null => e.result = Current

\* C13: whenever the status is RUNNING, every handleStart call has finished
\* and no audio operation is pending, the keep-alive oscillator exists,
\* provided no context failure has occurred. (Violated: a Reset or Pause click
\* during handleStart's await of requestWakeLock() removes the keep-alive, and
\* handleStart then sets the status to RUNNING.)
C13_KeepAliveWhileRunning ==
  (status = "RUNNING" /\ pendingStarts = 0 /\ audio.calls = EmptyBag /\ ~audio.failed)
    => audio.keepAliveOsc

C17_WitnessMobile ==
  /\ isMobile
  /\ audio.lastTone.op = "playDing"
  /\ audio.lastTone.ctx = Current
  /\ audio.lastTone.fallbacks = 1
  /\ audio.lastTone.tones = 1

\* ------------------------------------------------------------------ C23
\* C23: with a configured intervalLength of at least 4, when a tick posts
\* INTERVAL_END the ticks of the interval it ends that posted COUNTDOWN are
\* exactly the three ticks immediately before that tick.
C23_ThreeCountdownTicksBeforeIntervalEnd ==
  (posted # <<>> /\ LastPosted.type = "INTERVAL_END" /\ state.intervalLength >= 4) =>
    /\ intervalTicks >= 4
    /\ countdownTicks = {intervalTicks - 3, intervalTicks - 2, intervalTicks - 1}

\* C23 witness: the second interval of length 4 has ended on its fourth tick;
\* its ticks 1, 2 and 3 posted COUNTDOWN.
C23_Witness ==
  /\ posted # <<>> /\ LastPosted.type = "INTERVAL_END"
  /\ state.intervalLength = 4
  /\ intervalEnds = 2
  /\ intervalTicks = 4
  /\ countdownTicks = {1, 2, 3}

\* ------------------------------------------------------------------ C27
\* C27: once the view's status is COMPLETED it changes only to IDLE, and only
\* by handleReset. (Violated: a handleStart call that was awaiting when the
\* status became COMPLETED sets it to RUNNING.)
C27_CompletedLeavesOnlyByReset ==
  [][status = "COMPLETED" =>
       /\ status' \in {"COMPLETED", "IDLE"}
       /\ (status' = "IDLE" => HandleReset)]_vars

\* ------------------------------------------------------------------ C30
\* C30: with a configured intervalLength L >= 1 and the configuration the one
\* of the initialisation, every snapshot posted before the session completes
\* (TICK, COUNTDOWN, INTERVAL_END) satisfies
\* totalDuration * 60 - totalTimeRemaining
\*   = intervalsCompleted * L + (L - currentIntervalTime).
\* (Violated: the COUNTDOWN snapshot is taken between the two decrements.)
C30_AccountingIdentity ==
  (state.intervalLength >= 1 /\ completions = 0) =>
    \A i \in 1..Len(posted) :
      posted[i].type # "COMPLETED" =>
        LET s == posted[i].state IN
        s.totalDuration * SecondsPerMinute - s.totalTimeRemaining
          = s.intervalsCompleted * s.intervalLength
            + (s.intervalLength - s.currentIntervalTime)

\* C30 for the snapshots of TICK and INTERVAL_END alone
AccountingIdentity_StateMessages ==
  (state.intervalLength >= 1 /\ completions = 0) =>
    \A i \in 1..Len(posted) :
      posted[i].type \in {"TICK", "INTERVAL_END"} =>
        LET s == posted[i].state IN
        s.totalDuration * SecondsPerMinute - s.totalTimeRemaining
          = s.intervalsCompleted * s.intervalLength
            + (s.intervalLength - s.currentIntervalTime)

\* ------------------------------------------------------------------ C26
\* C26: after a Reset click, once every message in flight has been handled
\* and with no click, edit or handleStart step since, the view's status is
\* IDLE and its countdown is that of the settings. (Violated: a COMPLETED
\* message in flight at the click sets the status to COMPLETED afterwards.)
C26_ResetRestoresView ==
  (resetLast /\ toWorker = <<>> /\ toView = <<>> /\ pendingStarts = 0) =>
    (status = "IDLE" /\ viewState = FromSettings(settings))

\* ------------------------------------------------------------------ C28
\* C28: in every state with no message in flight in either direction and no
\* handleStart call awaiting, the view's status is RUNNING exactly when the
\* worker's interval timer is set. (Violated: a COMPLETED message handled
\* after a Reset and a Start leaves the status COMPLETED while the timer of
\* the new session is set.)
C28_RunningIffTimerActive ==
  (toWorker = <<>> /\ toView = <<>> /\ pendingStarts = 0) =>
    (status = "RUNNING" <=> timerId # 0)

\* ------------------------------------------------------------------ C29
\* C29: in every state with no message in flight in either direction, the
\* view's currentIntervalTime, totalTimeRemaining and intervalsCompleted are
\* the worker's. (Violated: the TICK that RESET posts is handled by the view
\* after an edit of the settings.)
C29_ViewEqualsWorker ==
  (toWorker = <<>> /\ toView = <<>>) => viewState = Countdown(state)

\* ------------------------------------------------------------------ C22
\* C22: handling a worker message, the view calls playTick exactly once for
\* COUNTDOWN and not otherwise, triggers the alert (playDing) exactly once for
\* INTERVAL_END and for COMPLETED and not otherwise, so neither for TICK; for
\* COMPLETED it also releases the wake lock and disables background mode,
\* once each, and for no other type.
C22_SoundsPerMessage ==
  [][\A type \in {"TICK", "COUNTDOWN", "INTERVAL_END", "COMPLETED"} :
       (ViewOnMessage /\ Head(toView).type = type) =>
         /\ CallsOf(played', "playTick") = (IF type = "COUNTDOWN" THEN 1 ELSE 0)
         /\ CallsOf(played', "playDing")
              = (IF type \in {"INTERVAL_END", "COMPLETED"} THEN 1 ELSE 0)
         /\ CallsOf(played', "releaseWakeLock") = (IF type = "COMPLETED" THEN 1 ELSE 0)
         /\ CallsOf(played', "disableBackgroundMode")
              = (IF type = "COMPLETED" THEN 1 ELSE 0)
         /\ (type = "TICK" => played' = <<>>)]_vars

\* C22 witness: the view has handled the COUNTDOWN of a tick with one playTick
\* call and that tick's TICK is next in its queue.
C22_Witness ==
  /\ played = <<"playTick">>
  /\ toView # <<>> /\ Head(toView).type = "TICK"
  /\ viewState = <<Head(toView).state.currentIntervalTime + 1,
                   Head(toView).state.totalTimeRemaining,
                   Head(toView).state.intervalsCompleted>>

\* the view has handled INTERVAL_END with one playDing call
C22_WitnessIntervalEnd ==
  /\ played = <<"playDing">>
  /\ viewState = Countdown(state)
  /\ posted # <<>> /\ LastPosted.type = "INTERVAL_END"
  /\ toView = <<>>

\* the view has handled COMPLETED: playDing, releaseWakeLock,
\* disableBackgroundMode
C22_WitnessCompleted ==
  /\ played = <<"playDing", "releaseWakeLock", "disableBackgroundMode">>
  /\ status = "COMPLETED"
  /\ viewState[2] = 0

\* ------------------------------------------------------------------ C25
\* C25: whatever the interleaving of the calls that enable background mode
\* (handleStart, recoverForActiveSession) and of disableBackgroundMode
\* (handlePause, handleReset, COMPLETED), at most one keep-alive oscillator has
\* been started and not stopped, it is the one the service holds, and a
\* disableBackgroundMode() that follows another changes nothing.
C25_OneKeepAliveOscillator ==
  /\ audio.oscillators <= 1
  /\ audio.oscillators = 1 <=> audio.keepAliveOsc
  /\ Disable(Disable(audio)) = Disable(audio)

\* C25 witness: the keep-alive oscillator is running and another
\* enableBackgroundMode is awaiting the resume() of its ensureContextReady.
C25_Witness ==
  /\ audio.oscillators = 1
  /\ \E c \in BagToSet(audio.calls) :
        c.stage = "enable" /\ c.pc \in {"resume1", "resume2"}

\* ------------------------------------------------------------------ C24
\* C24: once an unlock() has settled and no primeFallbackAudio() is in
\* progress, no fallback element is muted, whether the play() calls of the
\* priming resolved or were rejected.
C24_UnmutedAfterUnlock ==
  (fallback.unlocked /\ fallback.priming = EmptyBag)
    => \A e \in Elements(fallback.version) : ~fallback.muted[e]

\* The AudioService with the pools: no element is muted when an unlock() has
\* settled and no primeFallbackAudio() is in progress.
UnmutedAfterUnlock_Pool ==
  (fallback.version = "pool" /\ fallback.unlocked /\ fallback.priming = EmptyBag)
    => \A e \in Elements(fallback.version) : ~fallback.muted[e]

\* ------------------------------------------------------------------ C21
\* C21: when the worker handles a START of a handleStart that was called
\* while the status was IDLE, its configuration equals the view's settings and
\* its countdown is the one of a fresh session with these settings.
C21_StartFromIdleMatchesSettings ==
  [][(OnStart /\ Head(starts.queued).clicked = "IDLE")
       => /\ Configuration(state) = <<settings.intervalLength, settings.totalDuration>>
          /\ Countdown(state) = FromSettings(settings)]_vars

\* The same for the STARTs posted while the status was still IDLE.
StartPostedWhileIdleMatchesSettings ==
  [][(OnStart /\ Head(starts.queued).sent = "IDLE")
       => /\ Configuration(state) = <<settings.intervalLength, settings.totalDuration>>
          /\ Countdown(state) = FromSettings(settings)]_vars

\* ------------------------------------------------------------------ C31
\* C31: when the status is not RUNNING (after Pause, Reset or completion, and
\* before the next handleStart), no handleStart is awaiting and no audio
\* operation is pending, the keep-alive is inactive: the service holds no
\* keep-alive oscillator and the silent loop is not playing. (Violated: a
\* recoverForActiveSession() in flight at the disableBackgroundMode() goes on
\* to enableBackgroundMode().)
C31_KeepAliveInactiveWhenStopped ==
  (status # "RUNNING" /\ pendingStarts = 0 /\ audio.calls = EmptyBag)
    => (~audio.keepAliveOsc /\ ~audio.silentPlaying)

\* ------------------------------------------------------------------ C32
\* C32: whenever no audio operation is pending, silentPlaying is true exactly
\* when the silentAudio element is playing. (Violated: primeFallbackAudio()
\* pauses silentAudio and enableBackgroundMode() does not replay it while
\* silentPlaying is true.)
C32_SilentFlagMatchesElement ==
  audio.calls = EmptyBag => (audio.silentPlaying <=> audio.silentActual)

\* ------------------------------------------------------------------ C33
\* C33: when enableBackgroundMode() has completed with a context from
\* ensureContextReady, the keep-alive oscillator the service holds is on the
\* service's current context. (Violated: an oscillator created on a context
\* that ensureContextReady replaced is kept.)
C33_KeepAliveOnCurrentContext ==
  audio.lastEnable.ctx = Current => audio.lastEnable.osc = Current

\* ------------------------------------------------------------------ C34
\* C34: when the status is not RUNNING (after Pause, Reset or completion) and
\* no handleStart is awaiting, every wake-lock sentinel that was granted has
\* been released. (Violated: the sentinel of the second of two overlapping
\* handleStart calls replaces the first in wakeLockRef, and the first is
\* never released.)
C34_NoWakeLockLeft ==
  (status # "RUNNING" /\ pendingStarts = 0) => wakeLock.unreleased = 0

====
